---- MODULE Spec2Model ----
(***************************************************************************)
(* A model of the hotwakes best-track tools: the SST / HYCOM window        *)
(* extraction pipeline (single_TC/extract_sst.py, extract_HYCOM_sst.py)    *)
(* and the read-only consumers of its output (count_tc_status.py,          *)
(* count_tc_types.py, find_mixed_missing_sst.py, plot_*.py).               *)
(*                                                                         *)
(* Text is modelled as sequences of one-character strings, so that         *)
(* splitting, trimming, case folding and number parsing are computed the   *)
(* way the Python code computes them.                                      *)
(***************************************************************************)
EXTENDS Integers, Sequences, FiniteSets, TLC

VARIABLES
    token,      \* coordinate parser: the token handed to parse_latlon
    parsed,     \* coordinate parser: what parse_latlon returned or raised
    cline,      \* line classification: the line shown to a tool
    verdict,    \* line classification: which tool read it and what it made of it
    scanFile,   \* missing-value scanner: the lines of the file being scanned
    scanPos,    \* missing-value scanner: lines read so far (the last lineno)
    reported,   \* missing-value scanner: the (lineno, text) pairs yielded so far
    dir,        \* status counter: the files of the directory, by name
    pending,    \* status counter: the files the glob has not yet handed over
    counts,     \* status counter: the Counter, its keys in insertion order
    report,     \* status counter: what main printed
    infile,     \* extraction: the lines of the input track file
    source,     \* extraction: "SST" (extract_sst.py) or "HYCOM" (extract_HYCOM_sst.py)
    catalog,    \* extraction: what the raster source holds
    pc,         \* extraction: where main is
    readPos,    \* extraction: lines of the input read so far
    header,     \* extraction: the list `header`
    rows,       \* extraction: the list `rows` (then the frame df)
    windows,    \* extraction: the 31 samples of each row sampled so far
    queries,    \* extraction: the requests made to the raster source, in order
    outdir,     \* extraction: whether ../t_data exists
    outfile,    \* extraction: the output file
    err         \* extraction: the exception that ended main, if any

parseVars == <<token, parsed>>

classVars == <<cline, verdict>>

scanVars == <<scanFile, scanPos, reported>>

countVars == <<dir, pending, counts, report>>

extractVars == <<infile, source, catalog, pc, readPos, header, rows, windows,
                 queries, outdir, outfile, err>>

vars == <<token, parsed, cline, verdict, scanFile, scanPos, reported,
          dir, pending, counts, report,
          infile, source, catalog, pc, readPos, header, rows, windows,
          queries, outdir, outfile, err>>

(***************************************************************************)
(* Characters and strings                                                  *)
(***************************************************************************)
Digits == {"0", "1", "2", "3", "4", "5", "6", "7", "8", "9"}

Whitespace == {" ", "\t", "\n", "\r"}

DigitVal(c) ==
    CASE c = "0" -> 0 [] c = "1" -> 1 [] c = "2" -> 2 [] c = "3" -> 3
      [] c = "4" -> 4 [] c = "5" -> 5 [] c = "6" -> 6 [] c = "7" -> 7
      [] c = "8" -> 8 [] c = "9" -> 9

DigitChar(d) ==
    CASE d = 0 -> "0" [] d = 1 -> "1" [] d = 2 -> "2" [] d = 3 -> "3"
      [] d = 4 -> "4" [] d = 5 -> "5" [] d = 6 -> "6" [] d = 7 -> "7"
      [] d = 8 -> "8" [] d = 9 -> "9"

\* str.upper() on one character (the letters that occur in track files)
UpperChar(c) ==
    CASE c = "n" -> "N" [] c = "s" -> "S" [] c = "e" -> "E" [] c = "w" -> "W"
      [] c = "a" -> "A" [] c = "x" -> "X" [] c = "h" -> "H" [] c = "u" -> "U"
      [] c = "t" -> "T" [] c = "l" -> "L" [] c = "d" -> "D" [] c = "r" -> "R"
      [] c = "i" -> "I" [] c = "f" -> "F" [] c = "y" -> "Y"
      [] OTHER -> c

\* str.lower() on one character
LowerChar(c) ==
    CASE c = "N" -> "n" [] c = "S" -> "s" [] c = "E" -> "e" [] c = "W" -> "w"
      [] c = "A" -> "a" [] c = "X" -> "x" [] c = "H" -> "h" [] c = "U" -> "u"
      [] c = "T" -> "t" [] c = "L" -> "l" [] c = "D" -> "d" [] c = "R" -> "r"
      [] c = "I" -> "i" [] c = "F" -> "f" [] c = "Y" -> "y"
      [] OTHER -> c

Lower(s) == [i \in 1..Len(s) |-> LowerChar(s[i])]

\* s[:-1]
AllButLast(s) == IF Len(s) = 0 THEN <<>> ELSE SubSeq(s, 1, Len(s) - 1)

\* the first index >= p of s that holds no decimal digit (Len(s)+1 if none)
RECURSIVE SkipDigits(_, _)
SkipDigits(s, p) ==
    IF p <= Len(s) /\ s[p] \in Digits THEN SkipDigits(s, p + 1) ELSE p

\* the value of the first n characters of a string of decimal digits
RECURSIVE DigitsValueTo(_, _)
DigitsValueTo(s, n) ==
    IF n = 0 THEN 0 ELSE 10 * DigitsValueTo(s, n - 1) + DigitVal(s[n])

\* the value of a string of decimal digits ("" is 0)
DigitsValue(s) == DigitsValueTo(s, Len(s))

(***************************************************************************)
(* Floating-point values are kept as exact decimals mant * 10^exp, in      *)
(* canonical form (mant has no trailing zero; zero is 0 * 10^0), so that   *)
(* equality of two values is equality of their records.                    *)
(***************************************************************************)
RECURSIVE Canon(_, _)
Canon(m, e) ==
    IF m = 0 THEN [kind |-> "num", mant |-> 0, exp |-> 0]
    ELSE IF m % 10 = 0 THEN Canon(m \div 10, e + 1)
    ELSE [kind |-> "num", mant |-> m, exp |-> e]

\* float("nan"); mant is +1 or -1 for an infinity, 0 for NaN
NaN == [kind |-> "nan", mant |-> 0, exp |-> 0]

Infinity(neg) == [kind |-> "inf", mant |-> IF neg THEN -1 ELSE 1, exp |-> 0]

FloatNeg(v) == [kind |-> v.kind, mant |-> 0 - v.mant, exp |-> v.exp]

FloatAbs(v) == IF v.mant < 0 THEN FloatNeg(v) ELSE v

Returned(v) == [ok |-> TRUE, val |-> v, exc |-> "none"]

Raised(e) == [ok |-> FALSE, val |-> Canon(0, 0), exc |-> e]

\* float(s) for a string without surrounding whitespace: an optional sign,
\* then "nan", "inf" or "infinity" in any case, or digits with an optional
\* point (at least one digit) and an optional exponent.
\* (float also reads "_" between digits; no input here holds an underscore.)
ParseFloat(s) ==
    LET n       == Len(s)
        signed  == n >= 1 /\ s[1] \in {"+", "-"}
        neg     == n >= 1 /\ s[1] = "-"
        p1      == IF signed THEN 2 ELSE 1
        p2      == SkipDigits(s, p1)
        hasDot  == p2 <= n /\ s[p2] = "."
        p3      == IF hasDot THEN SkipDigits(s, p2 + 1) ELSE p2
        intPart == SubSeq(s, p1, p2 - 1)
        fraPart == IF hasDot THEN SubSeq(s, p2 + 1, p3 - 1) ELSE <<>>
        hasExp  == p3 <= n /\ s[p3] \in {"e", "E"}
        expSgn  == hasExp /\ p3 + 1 <= n /\ s[p3 + 1] \in {"+", "-"}
        expNeg  == expSgn /\ s[p3 + 1] = "-"
        p4      == IF hasExp THEN (IF expSgn THEN p3 + 2 ELSE p3 + 1) ELSE p3
        p5      == IF hasExp THEN SkipDigits(s, p4) ELSE p3
        expPart == SubSeq(s, p4, p5 - 1)
        wellFormed == /\ Len(intPart) + Len(fraPart) >= 1
                      /\ hasExp => Len(expPart) >= 1
                      /\ p5 = n + 1
        m       == DigitsValue(intPart \o fraPart)
        e       == (IF expNeg THEN 0 - DigitsValue(expPart) ELSE DigitsValue(expPart))
                   - Len(fraPart)
        word    == Lower(SubSeq(s, p1, n))
    IN  IF word = <<"n", "a", "n">> THEN Returned(NaN)
        ELSE IF word \in {<<"i", "n", "f">>,
                          <<"i", "n", "f", "i", "n", "i", "t", "y">>}
        THEN Returned(Infinity(neg))
        ELSE IF wellFormed
        THEN Returned(Canon(IF neg THEN 0 - m ELSE m, e))
        ELSE Raised("ValueError")

(***************************************************************************)
(* The resting values of each component's variables: a specification of    *)
(* one component holds the others at rest.                                 *)
(***************************************************************************)
NotParsed == [ok |-> FALSE, val |-> Canon(0, 0), exc |-> "not called"]

ParseIdle == token = <<>> /\ parsed = NotParsed

NoVerdict == [tool |-> "none", fix |-> FALSE, window |-> FALSE]

ClassIdle == cline = <<>> /\ verdict = NoVerdict

ScanIdle == scanFile = <<>> /\ scanPos = 0 /\ reported = <<>>

NotReported == [printed |-> FALSE, rows |-> <<>>, total |-> 0]

CountIdle == dir = <<>> /\ pending = {} /\ counts = <<>> /\ report = NotReported

NoFile == [exists |-> FALSE, lines |-> <<>>, writes |-> 0]

ExtractIdle ==
    /\ infile = <<>> /\ source = "none" /\ catalog = "none" /\ pc = "idle"
    /\ readPos = 0 /\ header = <<>> /\ rows = <<>> /\ windows = <<>>
    /\ queries = <<>> /\ outdir = FALSE /\ outfile = NoFile /\ err = "none"

(***************************************************************************)
(* Coordinate Parser: parse_latlon                                         *)
(***************************************************************************)
\* the second half of parse_latlon, given what float(token[:-1]) gave: an
\* exception is passed on; else hemi = token[-1].upper() and
\* `return v if hemi in ("N", "E") else -v`
SignByHemisphere(f, tok) ==
    IF ~f.ok THEN f
    ELSE IF UpperChar(tok[Len(tok)]) \in {"N", "E"}
         THEN f ELSE Returned(FloatNeg(f.val))

\* parse_latlon without the .upper(): lower-case hemisphere letters fall to
\* the negative branch
parse_latlon_CaseSensitive(tok) ==
    LET f == ParseFloat(AllButLast(tok))
    IN  IF ~f.ok THEN f
        ELSE IF tok[Len(tok)] \in {"N", "E"}
             THEN f ELSE Returned(FloatNeg(f.val))

\* v, hemi = float(token[:-1]), token[-1].upper()
\* return v if hemi in ("N", "E") else -v
\* float("") raises before token[-1] is read, so an empty token is a ValueError.
parse_latlon(tok) == SignByHemisphere(ParseFloat(AllButLast(tok)), tok)

\* ---- the parser applied to every short token ----
MaxTokLen == 4

TokenAlphabet ==
    {"1", "5", ".", "-", "N", "S", "E", "W", "n", "s", "e", "w", "X"}

Tokens == UNION {[1..n -> TokenAlphabet] : n \in 0..MaxTokLen}

InitParse ==
    /\ token \in Tokens
    /\ parsed = NotParsed
    /\ ClassIdle
    /\ ScanIdle
    /\ CountIdle
    /\ ExtractIdle

ParseLatLon ==
    /\ parsed = NotParsed
    /\ parsed' = parse_latlon(token)
    /\ UNCHANGED <<token, classVars, scanVars, countVars, extractVars>>

NextParse == ParseLatLon

SpecParse == InitParse /\ [][NextParse]_vars

(***************************************************************************)
(* Claims about the coordinate parser                                      *)
(***************************************************************************)
CompassLetters == {"N", "S", "E", "W", "n", "s", "e", "w"}

\* a decimal numeral: digits, optionally a point and more digits
IsDecimalNumeral(s) ==
    LET p2 == SkipDigits(s, 1)
    IN  /\ p2 > 1
        /\ \/ p2 = Len(s) + 1
           \/ /\ s[p2] = "."
              /\ SkipDigits(s, p2 + 1) = Len(s) + 1

IsCompassToken(tok) ==
    /\ Len(tok) >= 2
    /\ tok[Len(tok)] \in CompassLetters
    /\ IsDecimalNumeral(AllButLast(tok))

\* the value of a decimal numeral, digit by digit
NumeralValue(s) ==
    LET p2  == SkipDigits(s, 1)
        fra == IF p2 <= Len(s) THEN SubSeq(s, p2 + 1, Len(s)) ELSE <<>>
    IN  Canon(DigitsValue(SubSeq(s, 1, p2 - 1) \o fra), 0 - Len(fra))

\* C6: for every valid compass token X<letter>, parse_latlon returns +X for
\* N and E (either case) and -X for S and W (either case), and the absolute
\* value of the result is the value of the token without its last character.
C6_SignedDegrees ==
    (parsed # NotParsed /\ IsCompassToken(token)) =>
        LET x == NumeralValue(AllButLast(token))
            h == token[Len(token)]
        IN  /\ parsed.ok
            /\ h \in {"N", "n", "E", "e"} => parsed.val = x
            /\ h \in {"S", "s", "W", "w"} => parsed.val = FloatNeg(x)
            /\ FloatAbs(parsed.val) = ParseFloat(AllButLast(token)).val

\* a lower-case southern token with a fractional numeral has been parsed
C6_Witness ==
    /\ parsed # NotParsed
    /\ token = <<"1", ".", "5", "s">>
    /\ parsed.val = [kind |-> "num", mant |-> -15, exp |-> -1]

\* C7: parse_latlon raises whenever the last character is no compass letter
\* or the leading substring is no decimal numeral.
C7_RejectsBadTokens ==
    (parsed # NotParsed /\ ~IsCompassToken(token)) => ~parsed.ok

(***************************************************************************)
(* Lines of a track file                                                   *)
(***************************************************************************)
\* the index of the first sep in s at or after i (Len(s)+1 if there is none)
NextSep(s, sep, i) ==
    IF \E j \in i..Len(s) : s[j] = sep
    THEN CHOOSE j \in i..Len(s) :
             s[j] = sep /\ \A k \in i..(j - 1) : s[k] # sep
    ELSE Len(s) + 1

\* str.split(sep): the fields between the separators, from index i on
RECURSIVE SplitFrom(_, _, _)
SplitFrom(s, sep, i) ==
    LET j == NextSep(s, sep, i)
    IN  IF j > Len(s) THEN <<SubSeq(s, i, Len(s))>>
        ELSE <<SubSeq(s, i, j - 1)>> \o SplitFrom(s, sep, j + 1)

Split(s, sep) == SplitFrom(s, sep, 1)

\* str.strip(): from the first to the last character that is no whitespace
Strip(s) ==
    IF \A i \in 1..Len(s) : s[i] \in Whitespace THEN <<>>
    ELSE SubSeq(s,
                CHOOSE i \in 1..Len(s) :
                    s[i] \notin Whitespace /\ \A j \in 1..(i - 1) : s[j] \in Whitespace,
                CHOOSE i \in 1..Len(s) :
                    s[i] \notin Whitespace /\ \A j \in (i + 1)..Len(s) : s[j] \in Whitespace)

\* str.rstrip("\n"): up to the last character that is no newline
RStripNewline(s) ==
    IF \A i \in 1..Len(s) : s[i] = "\n" THEN <<>>
    ELSE SubSeq(s, 1,
                CHOOSE i \in 1..Len(s) :
                    s[i] # "\n" /\ \A j \in (i + 1)..Len(s) : s[j] = "\n")

\* [p.strip() for p in line.split(",")]
Parts(line) ==
    LET f == Split(line, ",") IN [i \in 1..Len(f) |-> Strip(f[i])]

\* the last n elements of a sequence: parts[-n:]
LastN(q, n) == IF Len(q) <= n THEN q ELSE SubSeq(q, Len(q) - n + 1, Len(q))

\* the length of the date at the head of a fix line: \d{8} and line[:8]
DateLen == 8

\* the number of days sampled around a fix: range(-15, 16), parts[-31:]
WindowLen == 31

\* re.match(r"^\d{8},", line)
MatchesDateLine(line) ==
    /\ Len(line) >= DateLen + 1
    /\ \A i \in 1..DateLen : line[i] \in Digits
    /\ line[DateLen + 1] = ","

\* line[:8].isdigit(): the slice is not empty and holds digits only
First8IsDigit(line) ==
    LET head == SubSeq(line, 1, IF Len(line) < DateLen THEN Len(line) ELSE DateLen)
    IN  Len(head) > 0 /\ \A i \in 1..Len(head) : head[i] \in Digits

\* np.array(tokens, dtype=float) succeeds: every token reads as a float
AllFloats(tokens) == \A i \in 1..Len(tokens) : ParseFloat(tokens[i]).ok

VALID_STATUSES == {<<"T", "S">>, <<"H", "U">>}

(***************************************************************************)
(* How each tool takes a line: as a fix line or as a header line, and      *)
(* (the plot loaders) whether it then loads a window from it.              *)
(***************************************************************************)
\* extract_sst.main / extract_HYCOM_sst.main: date_line.match(line)
ExtractIsFix(line) == MatchesDateLine(line)

\* count_tc_status / count_tc_types accumulate_counts
CountIsFix(line) == MatchesDateLine(line)

\* find_mixed_missing_sst.mixed_rows
ScanIsFix(line) == MatchesDateLine(line)

\* plot_sst_window.load_windows
PlotWindowIsFix(line) == MatchesDateLine(line)

\* plot_sst_diff_pdfs.load_windows
PlotDiffIsFix(line) == MatchesDateLine(line)

\* plot_single_track_sst.load_windows: `if not line[:8].isdigit(): continue`
PlotSingleIsFix(line) == First8IsDigit(line)

\* plot_single_track_sst.load_windows: a window is appended for the line
PlotSingleLoads(line) ==
    /\ PlotSingleIsFix(line)
    /\ Len(Parts(line)) >= WindowLen
    /\ AllFloats(LastN(Parts(line), WindowLen))

\* plot_sst_window.load_windows and plot_sst_diff_pdfs.load_windows
PlotStatusLoads(line) ==
    /\ MatchesDateLine(line)
    /\ Len(Parts(line)) >= WindowLen
    /\ Parts(line)[4] \in VALID_STATUSES
    /\ AllFloats(LastN(Parts(line), WindowLen))

\* ---- every tool shown every short line ----
MaxPrefixLen == 9

PrefixAlphabet == {"1", ",", "x"}

Prefixes == UNION {[1..n -> PrefixAlphabet] : n \in 0..MaxPrefixLen}

RECURSIVE Repeat(_, _)
Repeat(s, n) == IF n = 0 THEN <<>> ELSE s \o Repeat(s, n - 1)

\* ",AL,13,HU,1N,1W" and 31 values ", 5.00", then the end of the line
AugmentedTail ==
    <<",", "A", "L", ",", "1", "3", ",", "H", "U", ",", "1", "N", ",", "1", "W">>
    \o Repeat(<<",", " ", "5", ".", "0", "0">>, WindowLen) \o <<"\n">>

LineTails == {<<>>, <<"\n">>, AugmentedTail}

InitClassify ==
    /\ \E p \in Prefixes, t \in LineTails : cline = p \o t
    /\ verdict = NoVerdict
    /\ ParseIdle
    /\ ScanIdle
    /\ CountIdle
    /\ ExtractIdle

Judged(tool, isFix, loads) ==
    /\ verdict = NoVerdict
    /\ verdict' = [tool |-> tool, fix |-> isFix, window |-> loads]
    /\ UNCHANGED <<cline, parseVars, scanVars, countVars, extractVars>>

ExtractReads == Judged("extract_sst", ExtractIsFix(cline), FALSE)

CountReads == Judged("count_tc_status", CountIsFix(cline), FALSE)

ScanReads == Judged("find_mixed_missing_sst", ScanIsFix(cline), FALSE)

PlotWindowReads ==
    Judged("plot_sst_window", PlotWindowIsFix(cline), PlotStatusLoads(cline))

PlotDiffReads ==
    Judged("plot_sst_diff_pdfs", PlotDiffIsFix(cline), PlotStatusLoads(cline))

PlotSingleReads ==
    Judged("plot_single_track_sst", PlotSingleIsFix(cline), PlotSingleLoads(cline))

NextClassify ==
    \/ ExtractReads
    \/ CountReads
    \/ ScanReads
    \/ PlotWindowReads
    \/ PlotDiffReads
    \/ PlotSingleReads

SpecClassify == InitClassify /\ [][NextClassify]_vars

\* the format's rule: 8 decimal digits, then a comma
IsFixLineByFormat(line) ==
    /\ Len(line) >= 9
    /\ \A i \in 1..8 : line[i] \in Digits
    /\ line[9] = ","

\* C8: every tool that reads track files takes a line for a fix line iff its
\* first 8 characters are decimal digits and the 9th is a comma, and for a
\* header line otherwise, so that all tools agree on the fix lines.
C8_OneFixLineRule ==
    verdict # NoVerdict =>
        /\ verdict.fix = IsFixLineByFormat(cline)
        /\ verdict.window => IsFixLineByFormat(cline)

(***************************************************************************)
(* Missing-value scanner: find_mixed_missing_sst.py                        *)
(***************************************************************************)
MISSING_STRINGS == {<<"n", "a", "n">>, <<>>, <<"-", "9", "9", "9">>}

\* is_missing without the .lower(): only the spelling "nan" counts
is_missing_CaseSensitive(tok) == Strip(tok) \in MISSING_STRINGS

\* tok.strip().lower() in MISSING_STRINGS
is_missing(tok) == Lower(Strip(tok)) \in MISSING_STRINGS

\* the body of the loop of mixed_rows for one line: TRUE iff the line is
\* yielded. any(miss_mask) and not all(miss_mask)
YieldsMixed(line) ==
    /\ MatchesDateLine(line)
    /\ LET parts == Parts(line)
       IN  /\ Len(parts) >= WindowLen
           /\ LET sst_tokens == LastN(parts, WindowLen)
              IN  /\ \E i \in 1..Len(sst_tokens) : is_missing(sst_tokens[i])
                  /\ ~ \A i \in 1..Len(sst_tokens) : is_missing(sst_tokens[i])

\* ---- the files scanned ----
MaxScanLines == 2

\* "19840901,AL,13,HU,1N,1W": a fix line as the track file has it
RawFix ==
    <<"1", "9", "8", "4", "0", "9", "0", "1", ",", "A", "L", ",", "1", "3",
      ",", "H", "U", ",", "1", "N", ",", "1", "W">>

HeaderLine == <<"A", "L", "1", "3", ",", "L", "I", "L", "I", "\n">>

\* appended values as extract_sst writes them, and as older files hold them
ScanTokens ==
    { <<" ", " ", "5", ".", "0", "0">>,
      <<" ", " ", " ", "n", "a", "n">>,
      <<"N", "a", "N">>,
      <<"-", "9", "9", "9">>,
      <<>> }

ScanDefaults == {<<" ", " ", "5", ".", "0", "0">>, <<" ", " ", " ", "n", "a", "n">>}

\* the window positions at which a line's value may differ from the others
ScanPositions == {1, WindowLen}

\* RawFix followed by ", v" for each of the 31 values v
RECURSIVE JoinValues(_, _)
JoinValues(vals, i) ==
    IF i > Len(vals) THEN <<>>
    ELSE <<",", " ">> \o vals[i] \o JoinValues(vals, i + 1)

AugmentedLine(dflt, pos, alt) ==
    RawFix
    \o JoinValues([k \in 1..WindowLen |-> IF k = pos THEN alt ELSE dflt], 1)
    \o <<"\n">>

ScanLines ==
    {HeaderLine, RawFix \o <<"\n">>}
    \cup {AugmentedLine(d, p, a) : d \in ScanDefaults, p \in ScanPositions,
                                   a \in ScanTokens}

ScanFiles == UNION {[1..n -> ScanLines] : n \in 0..MaxScanLines}

InitScan ==
    /\ scanFile \in ScanFiles
    /\ scanPos = 0
    /\ reported = <<>>
    /\ ParseIdle
    /\ ClassIdle
    /\ CountIdle
    /\ ExtractIdle

\* one turn of `for lineno, line in enumerate(f, 1)`
ScanLine ==
    /\ scanPos < Len(scanFile)
    /\ scanPos' = scanPos + 1
    /\ reported' =
           IF YieldsMixed(scanFile[scanPos + 1])
           THEN Append(reported, [lineno |-> scanPos + 1,
                                  text |-> RStripNewline(scanFile[scanPos + 1])])
           ELSE reported
    /\ UNCHANGED <<scanFile, parseVars, classVars, countVars, extractVars>>

NextScan == ScanLine

SpecScan == InitScan /\ [][NextScan]_vars

\* ---- C9 ----
\* the spellings of "nan" in either case
NanSpellings ==
    {<<a, b, c>> : a \in {"n", "N"}, b \in {"a", "A"}, c \in {"n", "N"}}

MissingByFormat(tok) ==
    Strip(tok) \in NanSpellings \cup {<<"-", "9", "9", "9">>, <<>>}

\* how many of the fields w are missing
MissingCount(w) == Cardinality({k \in 1..Len(w) : MissingByFormat(w[k])})

IsMixedFixLine(line) ==
    /\ IsFixLineByFormat(line)
    /\ LET fields == Split(line, ",")
       IN  /\ Len(fields) >= 31
           /\ LET m == MissingCount(LastN(fields, 31))
              IN  m >= 1 /\ m < 31

\* C9: mixed_rows reports a fix line, with its 1-based line number in the
\* file, iff at least one but not all of its trailing 31 fields are missing
\* ("nan" in any case, "-999", or empty after trimming); all-missing lines,
\* all-numeric lines and header lines are never reported.
C9_ReportsExactlyMixedLines ==
    /\ \A n \in 1..scanPos :
           (\E i \in 1..Len(reported) :
                reported[i] = [lineno |-> n, text |-> AllButLast(scanFile[n])])
           <=> IsMixedFixLine(scanFile[n])
    /\ \A i \in 1..Len(reported) :
           /\ reported[i].lineno \in 1..scanPos
           /\ IsMixedFixLine(scanFile[reported[i].lineno])
           /\ \A j \in 1..Len(reported) :
                  i < j => reported[i].lineno < reported[j].lineno

\* a header line was skipped and the mixed line after it reported as line 2,
\* its one missing value being the first of the 31 and spelled "NaN"
C9_Witness ==
    /\ scanPos = 2
    /\ scanFile[1] = HeaderLine
    /\ scanFile[2] = AugmentedLine(<<" ", " ", "5", ".", "0", "0">>, 1,
                                   <<"N", "a", "N">>)
    /\ reported = <<[lineno |-> 2, text |-> AllButLast(scanFile[2])]>>

(***************************************************************************)
(* Status counter: count_tc_status.py and count_tc_types.py (the same      *)
(* accumulate_counts and the same report)                                  *)
(***************************************************************************)
\* counts[key] += 1 on a Counter whose keys keep their insertion order
Increment(c, key) ==
    IF \E i \in 1..Len(c) : c[i].status = key
    THEN [i \in 1..Len(c) |->
             IF c[i].status = key
             THEN [status |-> key, n |-> c[i].n + 1] ELSE c[i]]
    ELSE Append(c, [status |-> key, n |-> 1])

\* the loop body without `and parts[3]`: an empty status is tallied too
CountLine_NoEmptyCheck(c, line) ==
    IF ~MatchesDateLine(line) THEN c
    ELSE LET parts == Parts(line)
         IN  IF Len(parts) >= 4 THEN Increment(c, parts[4]) ELSE c

\* the body of the loop of accumulate_counts for one line
\* (parts[3] of the code is the fourth field, parts[4] here)
CountLine(c, line) ==
    IF ~MatchesDateLine(line) THEN c
    ELSE LET parts == Parts(line)
         IN  IF Len(parts) >= 4 /\ parts[4] # <<>>
             THEN Increment(c, parts[4]) ELSE c

\* accumulate_counts(path, counts): the lines of the file from line i on
RECURSIVE accumulate_counts(_, _, _)
accumulate_counts(file, i, c) ==
    IF i > Len(file) THEN c
    ELSE accumulate_counts(file, i + 1, CountLine(c, file[i]))

\* sum(counts.values())
RECURSIVE SumCounts(_, _)
SumCounts(c, i) == IF i > Len(c) THEN 0 ELSE c[i].n + SumCounts(c, i + 1)

\* Counter.most_common(): sorted by count, largest first, equal counts in
\* insertion order (a stable sort)
most_common(c) ==
    LET rank(i) == 1 + Cardinality({j \in 1..Len(c) :
                        \/ c[j].n > c[i].n
                        \/ c[j].n = c[i].n /\ j < i})
    IN  [r \in 1..Len(c) |-> c[CHOOSE i \in 1..Len(c) : rank(i) = r]]

\* ---- the directories counted ----
MaxCountLines == 3

MaxOtherLines == 1

FileNames == {"a.txt", "b.txt"}

FixHU == RawFix \o <<"\n">>

\* "19840902,AL,13,TS,2N,1W"
FixTS ==
    <<"1", "9", "8", "4", "0", "9", "0", "2", ",", "A", "L", ",", "1", "3",
      ",", "T", "S", ",", "2", "N", ",", "1", "W", "\n">>

\* "19840903,AL,13,  ,3N,1W": the status field is blank
FixBlank ==
    <<"1", "9", "8", "4", "0", "9", "0", "3", ",", "A", "L", ",", "1", "3",
      ",", " ", " ", ",", "3", "N", ",", "1", "W", "\n">>

\* "19840904,AL": fewer than four fields
FixShort ==
    <<"1", "9", "8", "4", "0", "9", "0", "4", ",", "A", "L", "\n">>

CountLines == {HeaderLine, FixHU, FixTS, FixBlank, FixShort}

CountFiles(max) == UNION {[1..n -> CountLines] : n \in 0..max}

InitCount ==
    /\ \E a \in CountFiles(MaxCountLines), b \in CountFiles(MaxOtherLines) :
           dir = [f \in FileNames |-> IF f = "a.txt" THEN a ELSE b]
    /\ pending = FileNames
    /\ counts = <<>>
    /\ report = NotReported
    /\ ParseIdle
    /\ ClassIdle
    /\ ScanIdle
    /\ ExtractIdle

\* one turn of `for txt in dir.glob(...)`: glob yields each file once, in no
\* promised order
AccumulateFile(f) ==
    /\ f \in pending
    /\ counts' = accumulate_counts(dir[f], 1, counts)
    /\ pending' = pending \ {f}
    /\ UNCHANGED <<dir, report, parseVars, classVars, scanVars, extractVars>>

\* the rest of main: the total and the rows, most frequent first
PrintReport ==
    /\ pending = {}
    /\ ~report.printed
    /\ LET total == SumCounts(counts, 1)
       IN  report' = [printed |-> TRUE,
                      rows    |-> IF total = 0 THEN <<>> ELSE most_common(counts),
                      total   |-> total]
    /\ UNCHANGED <<dir, pending, counts, parseVars, classVars, scanVars, extractVars>>

NextCount ==
    \/ \E f \in FileNames : AccumulateFile(f)
    \/ PrintReport

SpecCount == InitCount /\ [][NextCount]_vars

\* ---- C10 ----
\* the status code of a line: its fourth field, trimmed, if it is a fix line
\* with that many fields; empty otherwise
StatusOf(line) ==
    IF ~IsFixLineByFormat(line) THEN <<>>
    ELSE LET fields == Split(line, ",")
         IN  IF Len(fields) >= 4 THEN Strip(fields[4]) ELSE <<>>

\* the lines, as (file, index) pairs, of the files in fs
LinesOf(fs) ==
    {p \in fs \X (1..(MaxCountLines + MaxOtherLines)) : p[2] <= Len(dir[p[1]])}

\* how many fix lines of the files in fs carry the status code
Tally(fs, code) ==
    Cardinality({p \in LinesOf(fs) : StatusOf(dir[p[1]][p[2]]) = code})

TallyOfCounter(c, code) ==
    IF \E i \in 1..Len(c) : c[i].status = code
    THEN (CHOOSE r \in {c[i] : i \in 1..Len(c)} : r.status = code).n
    ELSE 0

StatusCodes == {<<"H", "U">>, <<"T", "S">>, <<"A", "L">>, <<"1", "3">>, <<" ", " ">>}

\* C10: the counter holds, for each status code, the number of fix lines with
\* that (trimmed, non-empty) code in the files read so far, whatever the order
\* of the files; header lines and fix lines with an empty status add nothing;
\* the report lists every code once, in non-increasing count order, and its
\* total is the number of fix lines with a non-empty status.
C10_StatusTally ==
    /\ \A code \in StatusCodes :
           TallyOfCounter(counts, code) = Tally(FileNames \ pending, code)
    /\ \A i \in 1..Len(counts) :
           /\ counts[i].status \in StatusCodes \ {<<" ", " ">>}
           /\ counts[i].n >= 1
           /\ \A j \in 1..Len(counts) : i # j => counts[i].status # counts[j].status
    /\ report.printed =>
           /\ report.total = Cardinality({p \in LinesOf(FileNames) :
                                            StatusOf(dir[p[1]][p[2]]) # <<>>})
           /\ report.total > 0 =>
                  /\ {report.rows[i] : i \in 1..Len(report.rows)}
                         = {counts[i] : i \in 1..Len(counts)}
                  /\ Len(report.rows) = Len(counts)
           /\ \A i \in 1..Len(report.rows) :
                  /\ report.rows[i].n = Tally(FileNames, report.rows[i].status)
                  /\ \A j \in 1..Len(report.rows) :
                         i < j => report.rows[i].n >= report.rows[j].n

\* one TS fix in the file read first, three HU fixes in the other:
\* the report is HU: 3, TS: 1, total 4
C10_Witness ==
    /\ dir["a.txt"] = <<FixHU, FixHU, FixHU>>
    /\ dir["b.txt"] = <<FixTS>>
    /\ counts = <<[status |-> <<"T", "S">>, n |-> 1],
                  [status |-> <<"H", "U">>, n |-> 3]>>
    /\ report = [printed |-> TRUE,
                 rows |-> <<[status |-> <<"H", "U">>, n |-> 3],
                            [status |-> <<"T", "S">>, n |-> 1]>>,
                 total |-> 4]

(***************************************************************************)
(* Calendar arithmetic: datetime.strptime, + timedelta(days), strftime     *)
(* (proleptic Gregorian ordinals, day 1 = 0001-01-01, as datetime keeps    *)
(* them)                                                                   *)
(***************************************************************************)
\* a leap-year test that forgets the century rule
IsLeap_EveryFourth(y) == y % 4 = 0

IsLeap(y) == y % 4 = 0 /\ (y % 100 # 0 \/ y % 400 = 0)

DaysInMonth(y, m) ==
    IF m = 2 THEN (IF IsLeap(y) THEN 29 ELSE 28)
    ELSE IF m \in {4, 6, 9, 11} THEN 30 ELSE 31

\* days of year y before the first of month m
RECURSIVE DaysBeforeMonth(_, _)
DaysBeforeMonth(y, m) ==
    IF m = 1 THEN 0 ELSE DaysBeforeMonth(y, m - 1) + DaysInMonth(y, m - 1)

\* days before January 1st of year y
DaysBeforeYear(y) ==
    LET p == y - 1
    IN  p * 365 + (p \div 4) - (p \div 100) + (p \div 400)

ymd2ord(y, m, d) == DaysBeforeYear(y) + DaysBeforeMonth(y, m) + d

\* the month of day n (0-based) of a year: the last month that starts at or
\* before it
MonthOfYearDay(y, n) ==
    CHOOSE m \in 1..12 :
        /\ DaysBeforeMonth(y, m) <= n
        /\ n < DaysBeforeMonth(y, m) + DaysInMonth(y, m)

\* the date of an ordinal, by 400-, 100-, 4- and 1-year cycles
ord2ymd(ordinal) ==
    LET n0   == ordinal - 1
        n400 == n0 \div 146097
        r400 == n0 % 146097
        n100 == r400 \div 36524
        r100 == r400 % 36524
        n4   == r100 \div 1461
        r4   == r100 % 1461
        n1   == r4 \div 365
        r1   == r4 % 365
        year == n400 * 400 + 1 + n100 * 100 + n4 * 4 + n1
    IN  IF n1 = 4 \/ n100 = 4
        THEN [y |-> year - 1, m |-> 12, d |-> 31]
        ELSE LET mo == MonthOfYearDay(year, r1)
             IN  [y |-> year, m |-> mo, d |-> r1 - DaysBeforeMonth(year, mo) + 1]

\* datetime.strptime(ymd, "%Y%m%d") on 8 digits: ValueError for a month or
\* a day that does not exist, and for year 0
strptime(ymd) ==
    LET y == DigitsValue(SubSeq(ymd, 1, 4))
        m == DigitsValue(SubSeq(ymd, 5, 6))
        d == DigitsValue(SubSeq(ymd, 7, 8))
    IN  IF /\ Len(ymd) = 8
           /\ \A i \in 1..8 : ymd[i] \in Digits
           /\ y >= 1
           /\ m \in 1..12
           /\ d >= 1
           /\ d <= DaysInMonth(y, m)
        THEN [ok |-> TRUE, y |-> y, m |-> m, d |-> d]
        ELSE [ok |-> FALSE, y |-> 0, m |-> 0, d |-> 0]

\* base + timedelta(days=off)
PlusDays(date, off) == ord2ymd(ymd2ord(date.y, date.m, date.d) + off)

\* n as `width` decimal digits, zero-padded (n < 10^width)
RECURSIVE ZeroPadded(_, _)
ZeroPadded(n, width) ==
    IF width = 0 THEN <<>>
    ELSE Append(ZeroPadded(n \div 10, width - 1), DigitChar(n % 10))

\* date.strftime("%Y%m%d") (years 1000..9999)
strftime(date) ==
    ZeroPadded(date.y, 4) \o ZeroPadded(date.m, 2) \o ZeroPadded(date.d, 2)

(***************************************************************************)
(* Number formatting: f"{v:6.2f}"                                          *)
(***************************************************************************)
RECURSIVE Pow10(_)
Pow10(k) == IF k = 0 THEN 1 ELSE 10 * Pow10(k - 1)

\* the decimal digits of n >= 0, at least one
RECURSIVE NatDigits(_)
NatDigits(n) ==
    IF n < 10 THEN <<DigitChar(n)>>
    ELSE Append(NatDigits(n \div 10), DigitChar(n % 10))

\* a * 10^exp in hundredths, rounded to the nearest. (Python rounds the
\* binary double, so what a value written with a 5 in the thousandths becomes
\* depends on its binary expansion; the catalogs below give no such value.)
Hundredths(a, exp) ==
    IF exp >= -2 THEN a * Pow10(exp + 2)
    ELSE LET p == Pow10(-2 - exp)
             q == a \div p
             r == a % p
         IN  IF 2 * r > p \/ (2 * r = p /\ q % 2 = 1) THEN q + 1 ELSE q

PadLeft(s, width) ==
    IF Len(s) >= width THEN s
    ELSE [i \in 1..(width - Len(s)) |-> " "] \o s

\* f"{v:6.2f}": NaN is "nan"; a number has two digits after the point and
\* keeps its sign; the text is right-aligned in 6 columns
Format62(v) ==
    IF v.kind = "nan" THEN PadLeft(<<"n", "a", "n">>, 6)
    ELSE IF v.kind = "inf"
    THEN PadLeft((IF v.mant < 0 THEN <<"-">> ELSE <<>>) \o <<"i", "n", "f">>, 6)
    ELSE LET a == IF v.mant < 0 THEN 0 - v.mant ELSE v.mant
             h == Hundredths(a, v.exp)
         IN  PadLeft((IF v.mant < 0 THEN <<"-">> ELSE <<>>)
                     \o NatDigits(h \div 100) \o <<".">> \o ZeroPadded(h % 100, 2), 6)

(***************************************************************************)
(* The raster source (Earth Engine), as the extraction sees it: for one    *)
(* date and point the catalog has an image with a value there, or the      *)
(* lookup gives None, or the request fails when it is evaluated (no image  *)
(* on that date, the cell is masked, any other error). The raw values of   *)
(* the dated catalogs end in 7 north of the equator and in 3 south of it,  *)
(* where they are negative: no rescaled value lies halfway between two     *)
(* hundredths, and both directions of rounding occur.                      *)
(***************************************************************************)
Catalogs == {"constant", "bydate", "gappy", "empty"}

RasterOutcome(cat, date, lon, lat) ==
    LET byDate == 10 * (date.m * 100 + date.d) + 7
                  - (IF lat.mant < 0 THEN 20004 ELSE 0)
    IN  CASE cat = "constant" -> [kind |-> "value", raw |-> 500]
          [] cat = "bydate"   -> [kind |-> "value", raw |-> byDate]
          [] cat = "empty"    -> [kind |-> "noimage", raw |-> 0]
          [] cat = "gappy"    ->
                 IF date.d = 1 THEN [kind |-> "none", raw |-> 0]
                 ELSE IF date.d = 10 THEN [kind |-> "masked", raw |-> 0]
                 ELSE IF date.d = 20 THEN [kind |-> "error", raw |-> 0]
                 ELSE IF date.d = 28 THEN [kind |-> "noimage", raw |-> 0]
                 ELSE [kind |-> "value", raw |-> byDate]

Sources == {"SST", "HYCOM"}

\* the OISST rescaling applied to both collections
Rescale_AsOISST(src, raw) == Canon(raw, -2)

\* ee.Number(val).multiply(0.01) for OISST; .multiply(0.001).add(20) for HYCOM
Rescale(src, raw) ==
    IF src = "SST" THEN Canon(raw, -2) ELSE Canon(raw + 20000, -3)

\* get_daily_sst with the try/except taken away: a failed request raises
get_daily_sst_NoExcept(src, cat, ymd, lon, lat) ==
    LET date == [y |-> DigitsValue(SubSeq(ymd, 1, 4)),
                 m |-> DigitsValue(SubSeq(ymd, 5, 6)),
                 d |-> DigitsValue(SubSeq(ymd, 7, Len(ymd)))]
        out  == RasterOutcome(cat, date, lon, lat)
    IN  IF out.kind = "none" THEN Returned(NaN)
        ELSE IF out.kind = "value" THEN Returned(Rescale(src, out.raw))
        ELSE Raised("EEException")

\* get_daily_sst / get_daily_water_temp: d0 from int(ymd[:4]), int(ymd[4:6]),
\* int(ymd[6:]); NaN when the lookup gives None; inside the try the value is
\* fetched and rescaled, and any exception there gives NaN
get_daily_sst(src, cat, ymd, lon, lat) ==
    LET date == [y |-> DigitsValue(SubSeq(ymd, 1, 4)),
                 m |-> DigitsValue(SubSeq(ymd, 5, 6)),
                 d |-> DigitsValue(SubSeq(ymd, 7, Len(ymd)))]
        out  == RasterOutcome(cat, date, lon, lat)
    IN  IF out.kind = "none" THEN Returned(NaN)
        ELSE IF out.kind = "value" THEN Returned(Rescale(src, out.raw))
        ELSE Returned(NaN)

\* window = range(-15, 16): the k-th offset, k = 1..31
WindowOffset(k) == k - 16

\* the date string of the k-th query for a fix dated `base`
WindowDate(base, k) == strftime(PlusDays(base, WindowOffset(k)))

\* sst_window asking for the whole window once more when a sample is missing
sst_window_Retry(src, cat, row) ==
    LET base == strptime(row.ymd)
        res  == [k \in 1..WindowLen |->
                    get_daily_sst(src, cat, WindowDate(base, k), row.lon, row.lat)]
        once == [k \in 1..WindowLen |->
                    [ymd |-> WindowDate(base, k), lon |-> row.lon, lat |-> row.lat]]
    IN  IF ~base.ok
        THEN [ok |-> FALSE, exc |-> "ValueError", vals |-> <<>>, asked |-> <<>>]
        ELSE [ok    |-> TRUE,
              exc   |-> "none",
              vals  |-> [k \in 1..WindowLen |-> res[k].val],
              asked |-> IF \E k \in 1..WindowLen : res[k].val = NaN
                        THEN once \o once ELSE once]

\* sst_window(row) / temp_window(row): the 31 samples of one fix, in the
\* order of the offsets; a ValueError if row.ymd is no date; an exception of
\* get_daily_sst would end the list comprehension at the first failing offset
sst_window(src, cat, row) ==
    LET base == strptime(row.ymd)
        res  == [k \in 1..WindowLen |->
                    get_daily_sst(src, cat, WindowDate(base, k), row.lon, row.lat)]
        bad  == {k \in 1..WindowLen : ~res[k].ok}
        stop == IF bad = {} THEN WindowLen
                ELSE CHOOSE k \in bad : \A j \in bad : k <= j
    IN  IF ~base.ok
        THEN [ok |-> FALSE, exc |-> "ValueError", vals |-> <<>>, asked |-> <<>>]
        ELSE [ok    |-> bad = {},
              exc   |-> IF bad = {} THEN "none" ELSE res[stop].exc,
              vals  |-> [k \in 1..WindowLen |-> res[k].val],
              asked |-> [k \in 1..stop |->
                            [ymd |-> WindowDate(base, k),
                             lon |-> row.lon, lat |-> row.lat]]]

(***************************************************************************)
(* The extraction: main of extract_sst.py and of extract_HYCOM_sst.py      *)
(***************************************************************************)
\* sep.join(parts), from part i on
RECURSIVE JoinFrom(_, _, _)
JoinFrom(parts, sep, i) ==
    IF i > Len(parts) THEN <<>>
    ELSE IF i = Len(parts) THEN parts[i]
    ELSE parts[i] \o sep \o JoinFrom(parts, sep, i + 1)

JoinWith(parts, sep) == JoinFrom(parts, sep, 1)

\* the row's text rebuilt from its trimmed fields instead of kept as read
RawText_Rejoined(line) == JoinWith(Parts(line), <<",">>)

\* raw = line.rstrip("\n")
RawText(line) == RStripNewline(line)

NoRow == [raw |-> <<>>, ymd |-> <<>>, lat |-> Canon(0, 0), lon |-> Canon(0, 0)]

NotRead(exc) == [ok |-> FALSE, exc |-> exc, row |-> NoRow]

\* lon = parse_latlon(parts[5]) gave lon, and the dict is complete
FixRowLon(line, parts, lat, lon) ==
    IF ~lon.ok THEN NotRead(lon.exc)
    ELSE [ok  |-> TRUE, exc |-> "none",
          row |-> [raw |-> RawText(line), ymd |-> parts[1],
                   lat |-> lat.val, lon |-> lon.val]]

\* lat = parse_latlon(parts[4]) gave lat; parts[5] is read next
FixRowLat(line, parts, lat) ==
    IF ~lat.ok THEN NotRead(lat.exc)
    ELSE IF Len(parts) < 6 THEN NotRead("IndexError")
    ELSE FixRowLon(line, parts, lat, parse_latlon(parts[6]))

\* the dict's values in the order Python evaluates them: raw, parts[0],
\* parts[4] (an IndexError under five fields), parts[5]
FixRow(line, parts) ==
    IF Len(parts) < 5 THEN NotRead("IndexError")
    ELSE FixRowLat(line, parts, parse_latlon(parts[5]))

\* rows.append(dict(raw=..., ymd=parts[0], lat=parse_latlon(parts[4]),
\* lon=parse_latlon(parts[5]))) for a line that matched date_line: the row,
\* or the exception of the first argument that fails (parts[4] and parts[5]
\* of the code are parts[5] and parts[6] here)
ReadFix(line) == FixRow(line, Parts(line))

\* ", ".join(f"{v:6.2f}" for v in r[sst_cols])
FormatWindow(vals) ==
    JoinWith([k \in 1..Len(vals) |-> Format62(vals[k])], <<",", " ">>)

\* what the writer puts in the file: each header line and "\n", then for each
\* row of the frame f"{r.raw}, {sst_vals}\n"
OutputLines(hdr, frame, wins) ==
    [i \in 1..Len(hdr) |-> hdr[i] \o <<"\n">>]
    \o [i \in 1..Len(frame) |->
           frame[i].raw \o <<",", " ">> \o FormatWindow(wins[i]) \o <<"\n">>]

\* ---- the runs ----
MaxFileLines == 2

\* 19840215,AL,13,HU,13.4N,82.7W, 35: the fix line of the format's example,
\* dated so that the window crosses 29 February 1984, with one more field
GoodFix1 ==
    <<"1", "9", "8", "4", "0", "2", "1", "5", ",", "A", "L", ",", "1", "3",
      ",", "H", "U", ",", "1", "3", ".", "4", "N", ",", "8", "2", ".", "7",
      "W", ",", " ", "3", "5", "\n">>

\* 19001231,AL,02,EX,9.5s,40e: lower-case hemispheres, a longitude without
\* point; the window crosses into 1901; 1900 is no leap year
GoodFix2 ==
    <<"1", "9", "0", "0", "1", "2", "3", "1", ",", "A", "L", ",", "0", "2",
      ",", "E", "X", ",", "9", ".", "5", "s", ",", "4", "0", "e", "\n">>

\* 19840902,AL,13,HU: a date-prefix line with 4 fields
FourFields ==
    <<"1", "9", "8", "4", "0", "9", "0", "2", ",", "A", "L", ",", "1", "3",
      ",", "H", "U", "\n">>

\* 19840903,AL,13,HU,13.4N: a date-prefix line with 5 fields: a latitude and no longitude
FiveFields ==
    <<"1", "9", "8", "4", "0", "9", "0", "3", ",", "A", "L", ",", "1", "3",
      ",", "H", "U", ",", "1", "3", ".", "4", "N", "\n">>

\* 19840904,AL,13,HU,xN,82.7W: a latitude that is no numeral
BadNumeral ==
    <<"1", "9", "8", "4", "0", "9", "0", "4", ",", "A", "L", ",", "1", "3",
      ",", "H", "U", ",", "x", "N", ",", "8", "2", ".", "7", "W", "\n">>

\* 19840905,AL,13,HU,13.4X,82.7W: a latitude whose last character is no compass letter
BadHemisphere ==
    <<"1", "9", "8", "4", "0", "9", "0", "5", ",", "A", "L", ",", "1", "3",
      ",", "H", "U", ",", "1", "3", ".", "4", "X", ",", "8", "2", ".", "7",
      "W", "\n">>

\* 19840231,AL,13,HU,13.4N,82.7W: six fields and a day that is not in the calendar
BadDate ==
    <<"1", "9", "8", "4", "0", "2", "3", "1", ",", "A", "L", ",", "1", "3",
      ",", "H", "U", ",", "1", "3", ".", "4", "N", ",", "8", "2", ".", "7",
      "W", "\n">>

TrackLines ==
    {HeaderLine, GoodFix1, GoodFix2,
     FourFields, FiveFields, BadNumeral, BadHemisphere, BadDate}

TrackFiles == UNION {[1..n -> TrackLines] : n \in 0..MaxFileLines}

\* an output file left by an earlier run
StaleFile == [exists |-> TRUE, lines |-> <<<<"o", "l", "d", "\n">>>>, writes |-> 0]

InitExtract ==
    /\ infile \in TrackFiles
    /\ source \in Sources
    /\ catalog \in Catalogs
    /\ outfile \in {NoFile, StaleFile}
    /\ outdir = outfile.exists
    /\ pc = "start"
    /\ readPos = 0
    /\ header = <<>>
    /\ rows = <<>>
    /\ windows = <<>>
    /\ queries = <<>>
    /\ err = "none"
    /\ ParseIdle
    /\ ClassIdle
    /\ ScanIdle
    /\ CountIdle

restVars == <<parseVars, classVars, scanVars, countVars>>

\* main up to the read loop: the input exists; the output directory is made
\* (mkdir(parents=True, exist_ok=True)); the output file is not touched
Setup ==
    /\ pc = "start"
    /\ outdir' = TRUE
    /\ pc' = "read"
    /\ UNCHANGED <<infile, source, catalog, readPos, header, rows, windows,
                   queries, outfile, err, restVars>>

\* one turn of `for line in f`
ReadLine ==
    /\ pc = "read"
    /\ readPos < Len(infile)
    /\ IF ExtractIsFix(infile[readPos + 1])
       THEN \E r \in {ReadFix(infile[readPos + 1])} :
                IF r.ok
                THEN /\ rows' = Append(rows, r.row)
                     /\ readPos' = readPos + 1
                     /\ UNCHANGED <<pc, err, header>>
                ELSE /\ pc' = "aborted"
                     /\ err' = r.exc
                     /\ UNCHANGED <<rows, readPos, header>>
       ELSE /\ header' = Append(header, RStripNewline(infile[readPos + 1]))
            /\ readPos' = readPos + 1
            /\ UNCHANGED <<pc, err, rows>>
    /\ UNCHANGED <<infile, source, catalog, windows, queries, outdir, outfile,
                   restVars>>

\* the end of the file: df = pd.DataFrame(rows), and df.apply begins
BuildFrame ==
    /\ pc = "read"
    /\ readPos = Len(infile)
    /\ pc' = "apply"
    /\ UNCHANGED <<infile, source, catalog, readPos, header, rows, windows,
                   queries, outdir, outfile, err, restVars>>

\* df.apply(sst_window, axis=1, ...) calls sst_window on the next row
SampleRow ==
    /\ pc = "apply"
    /\ Len(windows) < Len(rows)
    /\ \E w \in {sst_window(source, catalog, rows[Len(windows) + 1])} :
           /\ queries' = queries \o w.asked
           /\ IF w.ok
              THEN /\ windows' = Append(windows, w.vals)
                   /\ UNCHANGED <<pc, err>>
              ELSE /\ pc' = "aborted"
                   /\ err' = w.exc
                   /\ UNCHANGED windows
    /\ UNCHANGED <<infile, source, catalog, readPos, header, rows, outdir,
                   outfile, restVars>>

\* df[sst_cols] = <the result of apply>: with no row, apply(...,
\* result_type="expand") returns a frame without columns, and assigning it to
\* 31 columns raises ValueError ("Columns must be same length as key")
AssignColumns ==
    /\ pc = "apply"
    /\ Len(windows) = Len(rows)
    /\ IF Len(rows) = 0
       THEN pc' = "aborted" /\ err' = "ValueError"
       ELSE pc' = "write" /\ err' = err
    /\ UNCHANGED <<infile, source, catalog, readPos, header, rows, windows,
                   queries, outdir, outfile, restVars>>

\* the writer with the file opened for appending: what the file held stays
WriteOutput_Append ==
    /\ pc = "write"
    /\ outfile' = [exists |-> TRUE,
                   lines  |-> outfile.lines \o OutputLines(header, rows, windows),
                   writes |-> outfile.writes + 1]
    /\ pc' = "done"
    /\ UNCHANGED <<infile, source, catalog, readPos, header, rows, windows,
                   queries, outdir, err, restVars>>

\* the writer: out_file.open("w") and every write
WriteOutput ==
    /\ pc = "write"
    /\ outfile' = [exists |-> TRUE,
                   lines  |-> OutputLines(header, rows, windows),
                   writes |-> outfile.writes + 1]
    /\ pc' = "done"
    /\ UNCHANGED <<infile, source, catalog, readPos, header, rows, windows,
                   queries, outdir, err, restVars>>

\* the script is started again on the same input, after a run that ended:
\* main's locals are new; the output directory and the output file are as
\* the earlier run left them, and the writes of the new run are counted
\* from 0
Rerun ==
    /\ pc \in {"done", "aborted"}
    /\ pc' = "start"
    /\ readPos' = 0
    /\ header' = <<>>
    /\ rows' = <<>>
    /\ windows' = <<>>
    /\ queries' = <<>>
    /\ err' = "none"
    /\ outfile' = [outfile EXCEPT !.writes = 0]
    /\ UNCHANGED <<infile, source, catalog, outdir, restVars>>

NextExtract ==
    \/ Setup
    \/ ReadLine
    \/ BuildFrame
    \/ SampleRow
    \/ AssignColumns
    \/ WriteOutput
    \/ Rerun

SpecExtract == InitExtract /\ [][NextExtract]_vars


(***************************************************************************)
(* What the format and the calendar say, apart from the code               *)
(***************************************************************************)
IsHeaderLineByFormat(line) == ~IsFixLineByFormat(line)

InputFixes == SelectSeq(infile, IsFixLineByFormat)

InputHeaders == SelectSeq(infile, IsHeaderLineByFormat)

OutputFixes == SelectSeq(outfile.lines, IsFixLineByFormat)

OutputHeaders == SelectSeq(outfile.lines, IsHeaderLineByFormat)

\* a line without its line end
Chopped(line) == SubSeq(line, 1, Len(line) - 1)

\* the Gregorian rule: every fourth year, but of the century years only
\* those divisible by 400
GregorianLeap(y) == y % 400 = 0 \/ (y % 4 = 0 /\ y % 100 # 0)

MonthLength(y, m) ==
    CASE m \in {1, 3, 5, 7, 8, 10, 12} -> 31
      [] m \in {4, 6, 9, 11}           -> 30
      [] OTHER                         -> IF GregorianLeap(y) THEN 29 ELSE 28

Tomorrow(dt) ==
    IF dt.d < MonthLength(dt.y, dt.m) THEN [y |-> dt.y, m |-> dt.m, d |-> dt.d + 1]
    ELSE IF dt.m < 12 THEN [y |-> dt.y, m |-> dt.m + 1, d |-> 1]
    ELSE [y |-> dt.y + 1, m |-> 1, d |-> 1]

Yesterday(dt) ==
    IF dt.d > 1 THEN [y |-> dt.y, m |-> dt.m, d |-> dt.d - 1]
    ELSE IF dt.m > 1
    THEN [y |-> dt.y, m |-> dt.m - 1, d |-> MonthLength(dt.y, dt.m - 1)]
    ELSE [y |-> dt.y - 1, m |-> 12, d |-> 31]

\* the date n days after dt (before it, for n < 0), one day at a time
RECURSIVE DaysLater(_, _)
DaysLater(dt, n) ==
    IF n = 0 THEN dt
    ELSE IF n > 0 THEN DaysLater(Tomorrow(dt), n - 1)
    ELSE DaysLater(Yesterday(dt), n + 1)

DateOfText(ymd) ==
    [y |-> DigitsValue(SubSeq(ymd, 1, 4)),
     m |-> DigitsValue(SubSeq(ymd, 5, 6)),
     d |-> DigitsValue(SubSeq(ymd, 7, 8))]

TextOfDate(dt) ==
    ZeroPadded(dt.y, 4) \o ZeroPadded(dt.m, 2) \o ZeroPadded(dt.d, 2)

IsCalendarDate(ymd) ==
    /\ Len(ymd) = 8
    /\ \A i \in 1..8 : ymd[i] \in Digits
    /\ DateOfText(ymd).y >= 1
    /\ DateOfText(ymd).m \in 1..12
    /\ DateOfText(ymd).d \in 1..MonthLength(DateOfText(ymd).y, DateOfText(ymd).m)

\* a fix line lacks the fields of a fix, or a coordinate in it is no
\* compass token
IsMalformedFix(line) ==
    \/ Len(Parts(line)) < 6
    \/ ~IsCompassToken(Parts(line)[5])
    \/ ~IsCompassToken(Parts(line)[6])

\* every fix line of the input has its fields, a date of the calendar and
\* two compass tokens
InputIsWellFormed ==
    \A i \in 1..Len(infile) :
        IsFixLineByFormat(infile[i]) =>
            ~IsMalformedFix(infile[i]) /\ IsCalendarDate(Parts(infile[i])[1])

\* the text appended to the i-th fix line of the output, split at the commas
AppendedFields(i) ==
    Split(SubSeq(OutputFixes[i], Len(Chopped(InputFixes[i])) + 3,
                 Len(OutputFixes[i]) - 1), ",")

\* what the catalog holds for a query
OutcomeOf(q) == RasterOutcome(catalog, DateOfText(q.ymd), q.lon, q.lat)

\* the run has ended
Ended == pc \in {"done", "aborted"}

\* C1: for every track file, also one with no fix line, the run writes an
\* output whose header lines are the input's header lines, in order, and
\* which has as many fix lines as the input.
C1_HeadersAndFixCountKept ==
    (Ended /\ InputIsWellFormed) =>
        /\ pc = "done"
        /\ outfile.writes = 1
        /\ OutputHeaders = InputHeaders
        /\ Len(OutputFixes) = Len(InputFixes)

\* C2: the i-th fix line of the output is the text of the i-th fix line of
\* the input, unaltered, then ", ", then exactly 31 comma-separated values;
\* the fix lines keep their order.
C2_RawLineKept ==
    pc = "done" =>
        /\ Len(OutputFixes) = Len(InputFixes)
        /\ \A i \in 1..Len(InputFixes) :
               /\ Len(OutputFixes[i]) > Len(Chopped(InputFixes[i])) + 3
               /\ SubSeq(OutputFixes[i], 1, Len(Chopped(InputFixes[i])) + 2)
                      = Chopped(InputFixes[i]) \o <<",", " ">>
               /\ OutputFixes[i][Len(OutputFixes[i])] = "\n"
               /\ Len(AppendedFields(i)) = WindowLen

\* a file of two fixes, the first with a space inside its text, is written
C2_Witness ==
    /\ pc = "done"
    /\ infile = <<GoodFix1, GoodFix2>>
    /\ Len(OutputFixes) = 2

\* C3: for every fix the k-th query, and so the k-th appended value, is for
\* the day (k - 16) days from the fix's date by the Gregorian calendar, at
\* the fix's own longitude and latitude: the offsets run from -15 to +15.
C3_WindowDatesInOrder ==
    /\ \A i \in 1..Len(windows) : \A k \in 1..WindowLen :
           \A day \in {TextOfDate(DaysLater(DateOfText(rows[i].ymd), k - 16))} :
               /\ queries[(i - 1) * WindowLen + k]
                      = [ymd |-> day, lon |-> rows[i].lon, lat |-> rows[i].lat]
               /\ windows[i][k]
                      = get_daily_sst(source, catalog, day,
                                      rows[i].lon, rows[i].lat).val
    /\ pc = "done" =>
           \A i \in 1..Len(windows) : \A fields \in {AppendedFields(i)} :
               \A k \in 1..WindowLen :
                   Strip(fields[k]) = Strip(Format62(windows[i][k]))

\* a window over 29 February 1984, starting on 31 January, and a window
\* from 1900 into 1901 are written
C3_Witness ==
    /\ pc = "done"
    /\ Len(queries) = 2 * WindowLen
    /\ queries[1].ymd = <<"1", "9", "8", "4", "0", "1", "3", "1">>
    /\ queries[15].ymd = <<"1", "9", "8", "4", "0", "2", "1", "4">>
    /\ queries[30].ymd = <<"1", "9", "8", "4", "0", "2", "2", "9">>
    /\ queries[31].ymd = <<"1", "9", "8", "4", "0", "3", "0", "1">>
    /\ queries[2 * WindowLen].ymd = <<"1", "9", "0", "1", "0", "1", "1", "5">>

\* C4: a sample for which there is no image, the cell is masked or the
\* request fails is NaN, and no such failure ends the run: a run ends
\* early only while reading, or on a frame without rows, or on a fix date
\* that is no calendar date; otherwise every fix gets its 31 samples and the
\* output is written with a line for each fix.
C4_SamplingFailureIsNaN ==
    /\ \A j \in 1..Len(queries) :
           ((j - 1) \div WindowLen < Len(windows)
                /\ OutcomeOf(queries[j]).kind # "value")
           => windows[((j - 1) \div WindowLen) + 1][((j - 1) % WindowLen) + 1] = NaN
    /\ pc = "aborted" => err \in {"IndexError", "ValueError"}
    /\ (pc = "aborted" /\ readPos = Len(infile) /\ Len(rows) > 0)
           => ~IsCalendarDate(rows[Len(windows) + 1].ymd)
    /\ pc \in {"write", "done"} =>
           /\ Len(windows) = Len(rows)
           /\ Len(queries) = WindowLen * Len(rows)
    /\ pc = "done" =>
           /\ outfile.writes = 1
           /\ Len(OutputFixes) = Len(rows)

\* a run over a catalog with every kind of gap has ended with an output: the
\* first fix met a missing lookup, a masked cell, a failed request and a day
\* without image, and the second fix still has a value
C4_Witness ==
    /\ pc = "done"
    /\ catalog = "gappy"
    /\ Len(rows) = 2
    /\ \A g \in {"none", "masked", "error", "noimage"} :
           \E j \in 1..WindowLen :
               OutcomeOf(queries[j]).kind = g /\ windows[1][j] = NaN
    /\ \E k \in 1..WindowLen : windows[2][k].kind = "num"

\* C5: a file with a fix line of fewer than 6 fields, or with a latitude or
\* longitude that is no compass token, is never written: the run ends with
\* an error and the output file is neither made nor changed.
C5_MalformedFixAborts ==
    (\E i \in 1..Len(infile) :
         IsFixLineByFormat(infile[i]) /\ IsMalformedFix(infile[i]))
    => /\ pc \notin {"write", "done"}
       /\ outfile.writes = 0
       /\ outfile \in {NoFile, StaleFile}


(***************************************************************************)
(* The rescaling and the written numbers, as the format states them        *)
(***************************************************************************)
\* multiplier and offset of a source, in thousandths of a degree
MultiplierThousandths(src) == IF src = "SST" THEN 10 ELSE 1

OffsetThousandths(src) == IF src = "SST" THEN 0 ELSE 20000

\* a number held as mant * 10^exp, exp in -3..0, in thousandths
InThousandths(v) == v.mant * Pow10(v.exp + 3)

\* the raw value the catalog holds for the k-th sample of fix i
RawOf(i, k) == OutcomeOf(queries[(i - 1) * WindowLen + k])

\* the k-th column of the fields appended to a fix line: the text between
\* the ", "
ColumnOf(fields, k) == IF k = 1 THEN fields[1] ELSE Tail(fields[k])

Column(i, k) == ColumnOf(AppendedFields(i), k)

\* a text of the form [-]digits.dd
IsTwoDecimalText(t) ==
    LET from == IF Len(t) >= 1 /\ t[1] = "-" THEN 2 ELSE 1
    IN  /\ Len(t) >= from + 3
        /\ t[Len(t) - 2] = "."
        /\ \A j \in from..Len(t) : j # Len(t) - 2 => t[j] \in Digits
        /\ \A j \in (Len(t) - 1)..Len(t) : t[j] \in Digits

\* the number a two-decimal text stands for, in hundredths
TextHundredths(t) ==
    IF t[1] = "-"
    THEN 0 - (100 * DigitsValue(SubSeq(t, 2, Len(t) - 3))
              + DigitsValue(SubSeq(t, Len(t) - 1, Len(t))))
    ELSE 100 * DigitsValue(SubSeq(t, 1, Len(t) - 3))
         + DigitsValue(SubSeq(t, Len(t) - 1, Len(t)))

\* |a - b|
Distance(a, b) == IF a >= b THEN a - b ELSE b - a

\* a column holds a number with exactly two digits after the point, the
\* nearest hundredth of v, right-aligned in six characters or more
IsWrittenAs(col, t, v) ==
    /\ Len(col) = (IF Len(t) > 6 THEN Len(t) ELSE 6)
    /\ col[Len(col)] \in Digits
    /\ IsTwoDecimalText(t)
    /\ 2 * Distance(10 * TextHundredths(t), InThousandths(v)) < 10

\* the run used the constant source of the example: raw 500, rescaled by
\* 0.01 and 0
ConstantExample == pc = "done" /\ catalog = "constant" /\ source = "SST"

\* C11 as stated: every non-missing sample is raw * multiplier + offset and
\* is written with exactly two digits after the point, and with a constant
\* raw value 500 rescaled by (0.01, 0) each of the 31 columns is " 5.00".
C11_ColumnsAsStated ==
    /\ \A i \in 1..Len(windows) : \A k \in 1..WindowLen :
           RawOf(i, k).kind = "value" =>
               /\ windows[i][k].kind = "num"
               /\ InThousandths(windows[i][k])
                      = RawOf(i, k).raw * MultiplierThousandths(source)
                        + OffsetThousandths(source)
    /\ ConstantExample =>
           \A i \in 1..Len(rows) : \A k \in 1..WindowLen :
               \/ Column(i, k) = <<" ", "5", ".", "0", "0">>
               \/ AppendedFields(i)[k] = <<" ", "5", ".", "0", "0">>

\* C11, amended: every non-missing sample is raw * multiplier + offset with
\* the source's constants (0.01 and 0, or 0.001 and 20); it is written with
\* exactly two digits after the point, as the nearest hundredth, right
\* aligned in at least six characters; with a constant raw value 500
\* rescaled by (0.01, 0) each of the 31 columns is "  5.00", after the
\* unmodified line text and ", ".
C11_RescaledTwoDecimals ==
    /\ \A i \in 1..Len(windows) : \A k \in 1..WindowLen :
           RawOf(i, k).kind = "value" =>
               /\ windows[i][k].kind = "num"
               /\ InThousandths(windows[i][k])
                      = RawOf(i, k).raw * MultiplierThousandths(source)
                        + OffsetThousandths(source)
    /\ pc = "done" =>
           \A i \in 1..Len(rows) : \A fields \in {AppendedFields(i)} :
               /\ \A k \in 1..WindowLen :
                      windows[i][k].kind = "num" =>
                          IsWrittenAs(ColumnOf(fields, k),
                                      Strip(ColumnOf(fields, k)), windows[i][k])
               /\ (catalog = "constant" /\ source = "SST") =>
                      /\ SubSeq(OutputFixes[i], 1, Len(Chopped(InputFixes[i])) + 2)
                             = Chopped(InputFixes[i]) \o <<",", " ">>
                      /\ \A k \in 1..WindowLen :
                             ColumnOf(fields, k) = <<" ", " ", "5", ".", "0", "0">>

\* the example's fix line (dated 15 February) under a header line has been
\* written from the constant source
C11_Witness ==
    /\ ConstantExample
    /\ infile = <<HeaderLine, GoodFix1>>
    /\ Column(1, 1) = <<" ", " ", "5", ".", "0", "0">>
    /\ Column(1, WindowLen) = <<" ", " ", "5", ".", "0", "0">>


(***************************************************************************)
(* Running the extraction again                                            *)
(***************************************************************************)
\* the raster source answers every query with a value
SourceHasNoGaps == catalog \in {"constant", "bydate"}

\* the output file holds what an earlier run of the extraction wrote
LeftByEarlierRun == outfile.exists /\ outfile.lines # StaleFile.lines

\* C12: a second run on the same input, with a source that gives the same
\* value for the same query and no missing value, writes the same bytes to
\* the same output file: the write replaces what the first run left by an
\* identical content, and what a run writes holds nothing of what the file
\* held before, whether the file was absent, left by a run on other data,
\* or left by the first run.
C12_SecondRunSameBytes ==
    /\ [](SourceHasNoGaps /\ pc = "done" =>
              /\ outfile.exists
              /\ outfile.writes = 1
              /\ outfile.lines = OutputLines(header, rows, windows)
              /\ Len(outfile.lines) = Len(infile))
    /\ [][(SourceHasNoGaps /\ pc = "write" /\ LeftByEarlierRun) =>
              /\ pc' = "done"
              /\ outfile'.exists
              /\ outfile'.lines = outfile.lines]_vars

\* the second run on a file of a header line and a fix has read and sampled
\* it and is about to write, and the output of the first run is in place
C12_Witness ==
    /\ SourceHasNoGaps
    /\ pc = "write"
    /\ LeftByEarlierRun
    /\ outfile.writes = 0
    /\ infile = <<HeaderLine, GoodFix2>>
    /\ outfile.lines = OutputLines(header, rows, windows)


(***************************************************************************)
(* The queries of a run                                                    *)
(***************************************************************************)
\* the fix and the place in its window that the j-th query of a run is for
FixOfQuery(j) == ((j - 1) \div WindowLen) + 1

PlaceOfQuery(j) == ((j - 1) % WindowLen) + 1

\* C13: a run asks the raster source once for each fix and offset, 31 times
\* the number of fix lines in all, with no second request after a missing or
\* failed sample: the j-th query is for fix (j-1) div 31 + 1 at its own
\* point, the 16th query of a fix is for the fix's date and each next query
\* of a fix is for the next day; the queries of a fix are asked together,
\* after those of the fixes before it, and none is taken back.
C13_OneQueryPerFixAndOffset ==
    /\ [](/\ Len(queries) = WindowLen * Len(windows)
          /\ pc \in {"write", "done"} =>
                 Len(queries) = WindowLen * Len(InputFixes)
          /\ \A j \in 1..Len(queries) :
                 /\ queries[j].lon = rows[FixOfQuery(j)].lon
                 /\ queries[j].lat = rows[FixOfQuery(j)].lat
                 /\ PlaceOfQuery(j) = 16 =>
                        queries[j].ymd = rows[FixOfQuery(j)].ymd
                 /\ PlaceOfQuery(j) < WindowLen =>
                        queries[j + 1].ymd
                            = TextOfDate(Tomorrow(DateOfText(queries[j].ymd))))
    /\ [][queries' # queries =>
              \/ pc' = "start" /\ queries' = <<>>
              \/ /\ pc = "apply"
                 /\ Len(windows') = Len(windows) + 1
                 /\ Len(queries') = Len(queries) + WindowLen
                 /\ SubSeq(queries', 1, Len(queries)) = queries]_vars

\* a file with the same fix twice has been written from a catalog with
\* gaps: 62 queries, the second fix asked again for what the first was asked
\* for, and the missing samples of the first fix asked for once
C13_Witness ==
    /\ pc = "done"
    /\ catalog = "gappy"
    /\ infile = <<GoodFix1, GoodFix1>>
    /\ Len(queries) = 2 * WindowLen
    /\ \A k \in 1..WindowLen : queries[WindowLen + k] = queries[k]
    /\ \E k \in 1..WindowLen : windows[1][k] = NaN

====
